---- MODULE Spec2Model ----
(***************************************************************************)
(* Model of src/src/app.py: the module globals `default` and `present`     *)
(* and the function review(year), executed statement by statement by one   *)
(* or several callers.                                                     *)
(*                                                                         *)
(* A Python value is a record [type, num]: `type` is type(v).__name__ and  *)
(* `num` is the number the value denotes (False -> 0, True -> 1, the float *)
(* 3000.0 -> 3000, the str "2020" -> 2020; None and [] carry 0).           *)
(* A string built by str.format is the sequence of its parts.              *)
(* An outcome is a record [kind, val]: kind is "return" or the name of the *)
(* raised exception, val is the returned string or the message, as parts.  *)
(***************************************************************************)
EXTENDS Integers, Sequences, FiniteSets, TLC

VARIABLES default, present, rng, pc, arg, outcome

vars ==
  <<default, present, rng, pc, arg, outcome>>

-----------------------------------------------------------------------------
(* Bounds *)

NumThreads ==
  2

Radius ==
  1

RngPeriod ==
  3

Threads ==
  1 .. NumThreads

-----------------------------------------------------------------------------
(* Python values *)

PyInt(n) ==
  [type |-> "int", num |-> n]

PyBool(b) ==
  [type |-> "bool", num |-> IF b THEN 1 ELSE 0]

PyOther(t, n) ==
  [type |-> t, num |-> n]

\* the years review() names, and the boundary
SpecialYears ==
  {0, 42, 1337, 1984, 1987, 2020}

PresentYear ==
  2021

Pivots ==
  SpecialYears \cup {PresentYear}

Years ==
  {-10} \cup UNION {(p - Radius) .. (p + Radius) : p \in Pivots}

IntInputs ==
  {PyInt(n) : n \in Years}

BoolInputs ==
  {PyBool(FALSE), PyBool(TRUE)}

NonIntInputs ==
  { PyOther("str", 2020), PyOther("float", 3000), PyOther("float", 2020),
    PyOther("float", 1), PyOther("NoneType", 0), PyOther("list", 0) }

Inputs ==
  IntInputs \cup BoolInputs \cup NonIntInputs

\* the inputs of the concurrent callers: one of each class
ConcInputs ==
  { PyOther("str", 2020), PyOther("float", 3000), PyBool(FALSE),
    PyInt(PresentYear + 1), PyInt(2020), PyInt(0), PyInt(1),
    PyInt(PresentYear) }

-----------------------------------------------------------------------------
(* Python built-ins used by review *)

\* the classes a type inherits from, itself included
Mro(t) ==
  IF t = "bool" THEN {"bool", "int", "object"} ELSE {t, "object"}

isinstance(v, cls) ==
  cls \in Mro(v.type)

\* str(n) as str.format renders an int
IntToStr(n) ==
  ToString(n)

\* template.format(x = value): every replacement field is substituted
Format(template, x) ==
  [i \in DOMAIN template |-> IF template[i] = "{x}" THEN x ELSE template[i]]

\* random.randrange(a, b) taken for randint: the upper end is left out
randrange(a, b) ==
  a .. (b - 1)

\* an upper end one past the last index, as randint(0, len(default))
randintPastEnd(a, b) ==
  a .. (b + 1)

\* random.randint(a, b): any integer N with a <= N <= b
randint(a, b) ==
  a .. b

Range(s) ==
  {s[i] : i \in DOMAIN s}

-----------------------------------------------------------------------------
(* Outcomes *)

NoOutcome ==
  [kind |-> "none", val |-> <<>>]

Return(s) ==
  [kind |-> "return", val |-> <<s>>]

Raise(exc, msg) ==
  [kind |-> exc, val |-> msg]

\* the message built from the value instead of from its type's name
TypeErrorOutcomeOfValue(year) ==
  Raise("TypeError",
        Format(<<"Expected int, received ", "{x}">>, IntToStr(year.num)))

TypeErrorOutcome(year) ==
  Raise("TypeError", Format(<<"Expected int, received ", "{x}">>, year.type))

\* the message raised without .format(x = present)
ValueErrorOutcomeUnformatted ==
  Raise("ValueError",
        <<"Can't review a year that has not happened yet (year > ",
          "{x}", ")">>)

ValueErrorOutcome ==
  Raise("ValueError",
        Format(<<"Can't review a year that has not happened yet (year > ",
                 "{x}", ")">>, IntToStr(present)))

\* default[i] with Python's 0-based index
Subscript(i) ==
  IF i + 1 \in DOMAIN default
    THEN Return(default[i + 1])
    ELSE Raise("IndexError", <<"list index out of range">>)

NotSpecial ==
  "<else>"

\* the chain with the strings of 1984 and 1987 exchanged
SpecialMessageSwapped(y) ==
  IF y = 0 THEN "Jesus Christ what a year!"
  ELSE IF y = 42 THEN "A year worth living for"
  ELSE IF y = 1337 THEN ":sunglasses:"
  ELSE IF y = 1984 THEN "https://www.youtube.com/watch?v=dQw4w9WgXcQ"
  ELSE IF y = 1987 THEN "You never felt alone"
  ELSE IF y = 2020 THEN "Sad year :("
  ELSE NotSpecial

\* the if / elif chain on year
SpecialMessage(y) ==
  IF y = 0 THEN "Jesus Christ what a year!"
  ELSE IF y = 42 THEN "A year worth living for"
  ELSE IF y = 1337 THEN ":sunglasses:"
  ELSE IF y = 1984 THEN "You never felt alone"
  ELSE IF y = 1987 THEN "https://www.youtube.com/watch?v=dQw4w9WgXcQ"
  ELSE IF y = 2020 THEN "Sad year :("
  ELSE NotSpecial

TypeOk(year) ==
  isinstance(year, "int")

\* the boundary taken exclusive: year >= present
InFutureInclusive(year) ==
  year.num >= present

InFuture(year) ==
  year.num > present

\* review(year) as one function; r is the value randint returns
review(year, r) ==
  IF ~TypeOk(year) THEN TypeErrorOutcome(year)
  ELSE IF InFuture(year) THEN ValueErrorOutcome
  ELSE IF SpecialMessage(year.num) # NotSpecial
    THEN Return(SpecialMessage(year.num))
  ELSE Subscript(r)

\* every outcome review(year) can have in the current state
Outcomes(year) ==
  {review(year, r) : r \in randint(0, Len(default) - 1)}

-----------------------------------------------------------------------------
(* State machine *)

Init ==
  /\ default = <<"Meh", "Boring", "What about it?", "Nothing special">>
  /\ present = PresentYear
  /\ rng = 0
  /\ pc = [t \in Threads |-> "idle"]
  /\ arg = [t \in Threads |-> PyInt(0)]
  /\ outcome = [t \in Threads |-> NoOutcome]

Finish(t, o) ==
  /\ pc' = [pc EXCEPT ![t] = "done"]
  /\ outcome' = [outcome EXCEPT ![t] = o]

Goto(t, label) ==
  /\ pc' = [pc EXCEPT ![t] = label]
  /\ UNCHANGED outcome

\* a caller invokes review(v)
Call(t, v) ==
  /\ pc[t] \in {"idle", "done"}
  /\ pc' = [pc EXCEPT ![t] = "typecheck"]
  /\ arg' = [arg EXCEPT ![t] = v]
  /\ outcome' = [outcome EXCEPT ![t] = NoOutcome]
  /\ UNCHANGED <<default, present, rng>>

\* the type check placed after the comparison with present
TypeCheckAfterRange(t) ==
  /\ pc[t] = "typecheck"
  /\ IF InFuture(arg[t])
       THEN Finish(t, ValueErrorOutcome)
       ELSE IF ~TypeOk(arg[t])
         THEN Finish(t, TypeErrorOutcome(arg[t]))
         ELSE Goto(t, "rangecheck")
  /\ UNCHANGED <<default, present, rng, arg>>

\* if not isinstance(year, int): raise TypeError(...)
TypeCheck(t) ==
  /\ pc[t] = "typecheck"
  /\ IF ~TypeOk(arg[t])
       THEN Finish(t, TypeErrorOutcome(arg[t]))
       ELSE Goto(t, "rangecheck")
  /\ UNCHANGED <<default, present, rng, arg>>

\* year kept in a module global: the comparison reads any caller's year
RangeCheckSharedYear(t) ==
  /\ pc[t] = "rangecheck"
  /\ \E u \in Threads :
       IF InFuture(arg[u])
         THEN Finish(t, ValueErrorOutcome)
         ELSE Goto(t, "lookup")
  /\ UNCHANGED <<default, present, rng, arg>>

\* if year > present: raise ValueError(...)
RangeCheck(t) ==
  /\ pc[t] = "rangecheck"
  /\ IF InFuture(arg[t])
       THEN Finish(t, ValueErrorOutcome)
       ELSE Goto(t, "lookup")
  /\ UNCHANGED <<default, present, rng, arg>>

\* if year == 0: return ... elif ... else:
Lookup(t) ==
  /\ pc[t] = "lookup"
  /\ IF SpecialMessage(arg[t].num) # NotSpecial
       THEN Finish(t, Return(SpecialMessage(arg[t].num)))
       ELSE Goto(t, "draw")
  /\ UNCHANGED <<default, present, rng, arg>>

\* the drawn message removed from the list: default.pop(...)
DrawPop(t) ==
  /\ pc[t] = "draw"
  /\ \E r \in randint(0, Len(default) - 1) :
       /\ Finish(t, Subscript(r))
       /\ default' = [i \in 1 .. (Len(default) - 1) |->
                        IF i <= r THEN default[i] ELSE default[i + 1]]
  /\ rng' = (rng + 1) % RngPeriod
  /\ UNCHANGED <<present, arg>>

\* return default[random.randint(0, len(default) - 1)]
Draw(t) ==
  /\ pc[t] = "draw"
  /\ \E r \in randint(0, Len(default) - 1) :
       Finish(t, Subscript(r))
  /\ rng' = (rng + 1) % RngPeriod
  /\ UNCHANGED <<default, present, arg>>

Step(t) ==
  TypeCheck(t) \/ RangeCheck(t) \/ Lookup(t) \/ Draw(t)

\* a single caller
Next ==
  \/ \E v \in Inputs : Call(1, v)
  \/ TypeCheck(1)
  \/ RangeCheck(1)
  \/ Lookup(1)
  \/ Draw(1)

Spec ==
  Init /\ [][Next]_vars

\* several callers, interleaved statement by statement
NextConc ==
  \/ \E t \in Threads : \E v \in ConcInputs : Call(t, v)
  \/ \E t \in Threads : TypeCheck(t)
  \/ \E t \in Threads : RangeCheck(t)
  \/ \E t \in Threads : Lookup(t)
  \/ \E t \in Threads : Draw(t)

SpecConc ==
  Init /\ [][NextConc]_vars

-----------------------------------------------------------------------------
(* Properties *)

\* the strings the tests expect for the special years
SpecialYearTable ==
  [y \in SpecialYears |->
     CASE y = 0    -> "Jesus Christ what a year!"
       [] y = 42   -> "A year worth living for"
       [] y = 1337 -> ":sunglasses:"
       [] y = 1984 -> "You never felt alone"
       [] y = 1987 -> "https://www.youtube.com/watch?v=dQw4w9WgXcQ"
       [] y = 2020 -> "Sad year :("]

\* Python's integer types: int and its subclass bool
IntegerTypes ==
  {"int", "bool"}

Done(t) ==
  pc[t] = "done"

IsDefaultReturn(o) ==
  /\ o.kind = "return"
  /\ o.val[1] \in Range(default)

\* the contract of one call running alone
Contract(v, o) ==
  IF v.type \notin IntegerTypes THEN o.kind = "TypeError"
  ELSE IF v.num > PresentYear THEN o.kind = "ValueError"
  ELSE IF v.num \in SpecialYears THEN o = Return(SpecialYearTable[v.num])
  ELSE IsDefaultReturn(o)

Rank(label) ==
  CASE label = "idle" -> 0
    [] label = "typecheck" -> 1
    [] label = "rangecheck" -> 2
    [] label = "lookup" -> 3
    [] label = "draw" -> 4
    [] label = "done" -> 5

\* C1: a finished call review(y) with y an int, y <= 2021 and y not a
\* special year has returned (not raised), and the value returned is a
\* member of default.
C1_NonSpecialReturnsDefault ==
  \A t \in Threads :
    (Done(t) /\ arg[t].type = "int" /\ arg[t].num <= PresentYear
       /\ arg[t].num \notin SpecialYears)
      => IsDefaultReturn(outcome[t])

C1_Witness ==
  /\ Done(1)
  /\ arg[1] = PyInt(-10)
  /\ outcome[1] = Return("Nothing special")

\* C2: every special year is at most present, and a finished call
\* review(y) with y a special year has returned exactly the string the
\* table gives for y.
C2_SpecialYearFixedString ==
  /\ \A y \in SpecialYears : y <= present
  /\ \A t \in Threads :
       (Done(t) /\ arg[t].type = "int" /\ arg[t].num \in SpecialYears)
         => outcome[t] = Return(SpecialYearTable[arg[t].num])

C2_Witness ==
  /\ Done(1)
  /\ arg[1] = PyInt(1987)
  /\ outcome[1] = Return("https://www.youtube.com/watch?v=dQw4w9WgXcQ")

\* C3: a finished call on an int raised ValueError exactly when the int is
\* greater than 2021; the ValueError message contains "2021"; and
\* review(2021) returned a member of default.
C3_FutureYearValueError ==
  \A t \in Threads :
    (Done(t) /\ arg[t].type = "int") =>
      /\ (outcome[t].kind = "ValueError") <=> (arg[t].num > PresentYear)
      /\ (outcome[t].kind = "ValueError") => "2021" \in Range(outcome[t].val)
      /\ (arg[t].num = PresentYear) => IsDefaultReturn(outcome[t])

C3_Witness ==
  /\ Done(1)
  /\ arg[1] = PyInt(PresentYear + 1)
  /\ outcome[1].kind = "ValueError"

\* C4: a finished call on a value whose type is not an integer type (str,
\* float, NoneType, list) raised TypeError, with the type's name in the
\* message.
C4_NonIntegerTypeError ==
  \A t \in Threads :
    (Done(t) /\ arg[t].type \notin IntegerTypes) =>
      /\ outcome[t].kind = "TypeError"
      /\ arg[t].type \in Range(outcome[t].val)

C4_Witness ==
  /\ Done(1)
  /\ arg[1] = PyOther("str", 2020)
  /\ outcome[1].kind = "TypeError"
  /\ "str" \in Range(outcome[1].val)

\* C5: a finished call on a boolean raised TypeError.
C5_BoolRejected ==
  \A t \in Threads :
    (Done(t) /\ arg[t].type = "bool") => outcome[t].kind = "TypeError"

\* C6: when a call is about to draw, each message of default is a possible
\* result of the draw; a finished call on a valid non-special year returned
\* default[r] for exactly one index r of 0..len(default)-1, never an
\* IndexError.
C6_DrawCoversDefault ==
  \A t \in Threads :
    /\ pc[t] = "draw" =>
         \A i \in DOMAIN default :
           ENABLED (Draw(t) /\ outcome'[t] = Return(default[i]))
    /\ (Done(t) /\ arg[t].type = "int" /\ arg[t].num <= PresentYear
          /\ arg[t].num \notin SpecialYears) =>
         /\ outcome[t].kind = "return"
         /\ Cardinality({r \in 0 .. (Len(default) - 1) :
                           Return(default[r + 1]) = outcome[t]}) = 1

C6_Witness ==
  /\ pc[1] = "draw"
  /\ arg[1] = PyInt(1)

\* C7: with several callers interleaved, the outcome of every finished call
\* meets the contract of a call running alone, and is one of the outcomes
\* review has for that argument.
C7_InterleavingKeepsContract ==
  \A t \in Threads :
    Done(t) =>
      /\ Contract(arg[t], outcome[t])
      /\ outcome[t] \in Outcomes(arg[t])

C7_Witness ==
  /\ Done(1)
  /\ arg[1] = PyInt(PresentYear + 1)
  /\ outcome[1].kind = "ValueError"
  /\ Done(2)
  /\ arg[2] = PyInt(1)
  /\ outcome[2].kind = "return"

\* C8: default always holds its 4 strings in order and present is 2021,
\* and no step changes the outcomes review can have for any input.
C8_NoSideEffects ==
  /\ [](/\ default = <<"Meh", "Boring", "What about it?", "Nothing special">>
        /\ present = 2021)
  /\ [][\A v \in Inputs : Outcomes(v)' = Outcomes(v)]_vars

C8_Witness ==
  /\ rng = 2
  /\ Done(1)
  /\ outcome[1].kind = "TypeError"

\* C9: a finished call has raised TypeError, raised ValueError or returned;
\* a call on an int <= 2021 has returned; a call under way can always take
\* its next step, and each step moves it forward, so it finishes within
\* four steps.
C9_ThreeOutcomesNoBlocking ==
  /\ [](\A t \in Threads :
          /\ Done(t) => outcome[t].kind \in {"TypeError", "ValueError", "return"}
          /\ (Done(t) /\ arg[t].type = "int" /\ arg[t].num <= PresentYear)
               => outcome[t].kind = "return"
          /\ pc[t] \notin {"idle", "done"} => ENABLED Step(t))
  /\ [][\A t \in Threads :
          pc'[t] # pc[t] =>
            \/ Rank(pc'[t]) > Rank(pc[t])
            \/ pc[t] = "done" /\ pc'[t] = "typecheck"]_vars

C9_Witness ==
  /\ Done(1)
  /\ arg[1] = PyInt(2019)
  /\ outcome[1].kind = "return"
  /\ rng = 1

\* C10: a call is past the type check only with a value of an integer
\* type, and past the comparison only with a year <= present; a finished
\* call on a non-integer raised TypeError; the random source advances only
\* in a step that returns a message of default.
C10_ValidationOrder ==
  /\ [](\A t \in Threads :
          /\ pc[t] \in {"rangecheck", "lookup", "draw"}
               => arg[t].type \in IntegerTypes
          /\ pc[t] \in {"lookup", "draw"} => arg[t].num <= PresentYear
          /\ (Done(t) /\ arg[t].type \notin IntegerTypes)
               => outcome[t].kind = "TypeError")
  /\ [][rng' # rng =>
          \E t \in Threads :
            /\ pc[t] = "draw"
            /\ pc'[t] = "done"
            /\ outcome'[t].kind = "return"]_vars

C10_Witness ==
  /\ Done(1)
  /\ arg[1] = PyOther("float", 3000)
  /\ outcome[1].kind = "TypeError"
  /\ rng = 0

====
